---- MODULE Spec2Model ----
(***************************************************************************)
(* Model of the gapless playback engine, src/src/audioEngine.ts (class     *)
(* AudioEngine).  Time is the AudioContext clock in integer units.  A      *)
(* buffer is identified by the path it was decoded from; a source node is  *)
(* an entry of `nodes`; a setTimeout callback is an entry of `timers`.     *)
(***************************************************************************)
EXTENDS Integers, Sequences, FiniteSets, TLC

\* ---- bounds of the model ------------------------------------------------
MaxTime == 1
MaxNodes == 3
MaxInflight == 1
MaxRequests == 2

Null == 0
\* The tracks of the queue: a short one and a long one.
Paths == {1, 2}
\* Arguments of seek: below 0, inside a buffer or at its end, beyond every end.
SeekTimes == {-1, 1, 3}

\* AudioBuffer.duration of the buffer decoded from path b (decoder output).
BufferDuration(b) == b

Min(a, b) == IF a < b THEN a ELSE b
Max(a, b) == IF a > b THEN a ELSE b

VARIABLES
  currentSource,     \* node id or Null
  currentBuffer,     \* buffer or Null
  nextBuffer,
  currentTrackPath,
  nextTrackPath,
  loadingTrackPath,
  nextSourceNode,    \* node id or Null
  schedulerTimeout,  \* timer id or Null
  startTime,
  pauseOffset,
  isPlaying,
  nodes,             \* the AudioBufferSourceNodes that exist, by slot
  timers,            \* pending setTimeout callbacks
  orphans,           \* nodes still able to sound that the engine no longer references
  now,               \* context.currentTime
  loads,             \* in-flight fetch/decode of loadTrack, per path
  preloads,          \* in-flight fetch/decode of preloadNextTrack, per path
  notified,          \* onEndedCallback invocations made by the last step
  lastOp,            \* the last operation that changed anything
  lastResult,        \* its return value; of a void transport call, whether a swap was armed when it was made
  lastLoadCall,      \* path of the most recent loadTrack call
  lastPreloadReq,    \* most recent next-track request still standing
  volume,            \* _volume, in hundredths
  isMuted,           \* _isMuted
  gain,              \* gainNode.gain.value, in hundredths
  quiet,             \* the caller has made its last call
  queue,             \* the play queue: track ids, first to last
  currentTrackIndex  \* index into the queue (from 0), or NoIndex

engineVars == <<currentSource, currentBuffer, nextBuffer, currentTrackPath,
                nextTrackPath, loadingTrackPath, nextSourceNode,
                schedulerTimeout, startTime, pauseOffset, isPlaying, nodes,
                timers, orphans>>

vars == <<currentSource, currentBuffer, nextBuffer, currentTrackPath,
          nextTrackPath, loadingTrackPath, nextSourceNode, schedulerTimeout,
          startTime, pauseOffset, isPlaying, nodes, timers, orphans, now, loads,
          preloads, notified, lastOp, lastResult, lastLoadCall,
          lastPreloadReq,
         volume, isMuted, gain, quiet, queue, currentTrackIndex>>

\* The engine object as one record, so that methods compose.
Engine ==
  [currentSource |-> currentSource, currentBuffer |-> currentBuffer,
   nextBuffer |-> nextBuffer, currentTrackPath |-> currentTrackPath,
   nextTrackPath |-> nextTrackPath, loadingTrackPath |-> loadingTrackPath,
   nextSourceNode |-> nextSourceNode, schedulerTimeout |-> schedulerTimeout,
   startTime |-> startTime, pauseOffset |-> pauseOffset,
   isPlaying |-> isPlaying, nodes |-> nodes, timers |-> timers,
   orphans |-> orphans,
   notified |-> 0, overflow |-> FALSE]

Becomes(e) ==
  /\ currentSource' = e.currentSource
  /\ currentBuffer' = e.currentBuffer
  /\ nextBuffer' = e.nextBuffer
  /\ currentTrackPath' = e.currentTrackPath
  /\ nextTrackPath' = e.nextTrackPath
  /\ loadingTrackPath' = e.loadingTrackPath
  /\ nextSourceNode' = e.nextSourceNode
  /\ schedulerTimeout' = e.schedulerTimeout
  /\ startTime' = e.startTime
  /\ pauseOffset' = e.pauseOffset
  /\ isPlaying' = e.isPlaying
  /\ nodes' = e.nodes
  /\ timers' = e.timers
  /\ orphans' = e.orphans

\* ---- Web Audio source nodes ----------------------------------------------
\* A slot of `nodes` that holds no node.
FreeNode ==
  [buffer |-> Null, startAt |-> 0, offset |-> 0, state |-> "free",
   onended |-> FALSE, role |-> "none"]

\* createBufferSource + buffer + connect + start(when, offset)
NewNode(buf, when, offset, role) ==
  [buffer |-> buf, startAt |-> when, offset |-> offset, state |-> "live",
   onended |-> FALSE, role |-> role]

FreeSlots(ns) == {i \in DOMAIN ns : ns[i].state = "free"}

\* The slot a newly created node takes; Null when the model has none left.
Alloc(ns) ==
  IF FreeSlots(ns) = {} THEN Null
  ELSE CHOOSE i \in FreeSlots(ns) : \A j \in FreeSlots(ns) : i <= j

\* The instant at which a node has played its buffer to the end.
ExhaustAt(n) == n.startAt + Max(0, BufferDuration(n.buffer) - n.offset)

\* AudioBufferSourceNode.stop(): no effect on a node that already ended;
\* a stopped node still dispatches `ended` to the handler it carries.
StopNode(ns, i) ==
  IF ns[i].state = "live" THEN [ns EXCEPT ![i].state = "stopped"] ELSE ns

\* Node ids are opaque: the current node is renamed to 1 and the armed node to 2.
Renumber(e) ==
  LET ok(p) == /\ e.currentSource # Null => p[e.currentSource] = 1
               /\ (e.nextSourceNode # Null /\ e.nextSourceNode # e.currentSource)
                    => p[e.nextSourceNode] = 2
      id == [i \in DOMAIN e.nodes |-> i]
      p == IF ok(id) THEN id ELSE CHOOSE q \in Permutations(DOMAIN e.nodes) : ok(q)
      at(i) == IF i = Null THEN Null ELSE p[i]
      inv(j) == CHOOSE i \in DOMAIN e.nodes : p[i] = j
  IN [e EXCEPT !.nodes = [j \in DOMAIN @ |-> @[inv(j)]],
               !.currentSource = at(@),
               !.nextSourceNode = at(@),
               !.schedulerTimeout = at(@),
               !.timers = {[tm EXCEPT !.id = at(@), !.node = at(@)] : tm \in @}]

\* A node is inert when it has dispatched `ended`, or carries no onended
\* handler and is stopped or has played its buffer to the end.
Inert(n, t) ==
  \/ n.state = "ended"
  \/ ~n.onended /\ (n.state = "stopped" \/ t >= ExhaustAt(n))

\* What is kept of a node the engine no longer references: until when it
\* sounds, whether an onended handler is installed, how it was created.
Orphan(n) == [until |-> ExhaustAt(n), onended |-> n.onended, role |-> n.role]

\* The longest-sounding orphan of each kind stands for all of them.
Longest(os) ==
  {o \in os : \A q \in os :
     (q.role = o.role /\ q.onended = o.onended) => q.until <= o.until}

\* A node that nothing references leaves `nodes`: it is garbage when inert and
\* an orphan otherwise.
Collect(e, t) ==
  LET held == {e.currentSource, e.nextSourceNode} \cup {tm.node : tm \in e.timers}
      dropped == {i \in DOMAIN e.nodes : e.nodes[i].state # "free" /\ i \notin held}
      fresh == {Orphan(e.nodes[i]) : i \in {j \in dropped : ~Inert(e.nodes[j], t)}}
      old == {o \in e.orphans : o.onended \/ t < o.until}
  IN Renumber([e EXCEPT
       !.orphans = Longest(old \cup fresh),
       !.nodes = [i \in DOMAIN @ |-> IF i \in dropped THEN FreeNode ELSE @[i]]])

\* ---- getters ---------------------------------------------------------------
duration(e) == IF e.currentBuffer = Null THEN 0 ELSE BufferDuration(e.currentBuffer)

currentTimeOf(e, t) ==
  IF ~e.isPlaying THEN e.pauseOffset ELSE Min(t - e.startTime, duration(e))

\* onEndedCallback is registered by the application at start-up (setOnEnded).
Notify(e) == [e EXCEPT !.notified = @ + 1]

\* ---- methods ---------------------------------------------------------------
\* cancelScheduledTrack without its clearTimeout: the handle is forgotten, the
\* timer stays pending.
cancelScheduledTrack_keepsTimer(e, t) ==
  LET e1 == IF e.nextSourceNode # Null
              THEN [e EXCEPT !.nodes = StopNode(e.nodes, e.nextSourceNode),
                             !.nextSourceNode = Null]
              ELSE e
  IN Collect([e1 EXCEPT !.schedulerTimeout = Null], t)

cancelScheduledTrack(e, t) ==
  LET e1 == IF e.nextSourceNode # Null
              THEN [e EXCEPT !.nodes = StopNode(e.nodes, e.nextSourceNode),
                             !.nextSourceNode = Null]
              ELSE e
      e2 == IF e1.schedulerTimeout # Null
              THEN [e1 EXCEPT !.timers = {tm \in @ : tm.id # e1.schedulerTimeout},
                              !.schedulerTimeout = Null]
              ELSE e1
  IN Collect(e2, t)

\* timeRemaining computed from the position stored at the last pause or seek
\* instead of the clock-derived currentTime.
TimeRemaining_polled(e, t) == duration(e) - e.pauseOffset

\* timeRemaining and endTime of scheduleNextTrack.
TimeRemaining(e, t) == duration(e) - currentTimeOf(e, t)
EndTime(e, t) == t + TimeRemaining(e, t)

\* scheduleNextTrack without `currentSource.onended = null`.
scheduleNextTrack_keepsHandler(e, t) ==
  IF e.nextBuffer = Null \/ ~e.isPlaying \/ e.currentSource = Null THEN e
  ELSE IF e.nextSourceNode # Null \/ e.schedulerTimeout # Null THEN e
  ELSE
    LET id == Alloc(e.nodes)
        nextSource == NewNode(e.nextBuffer, EndTime(e, t), 0, "next")
    IN IF id = Null THEN [e EXCEPT !.overflow = TRUE]
       ELSE [e EXCEPT !.nodes = [@ EXCEPT ![id] = nextSource],
                      !.nextSourceNode = id,
                      !.schedulerTimeout = id,
                      !.timers = @ \cup {[id |-> id, due |-> t + TimeRemaining(e, t),
                                          node |-> id, buffer |-> e.nextBuffer,
                                          path |-> e.nextTrackPath,
                                          endTime |-> EndTime(e, t)]}]

scheduleNextTrack(e, t) ==
  IF e.nextBuffer = Null \/ ~e.isPlaying \/ e.currentSource = Null THEN e
  ELSE IF e.nextSourceNode # Null \/ e.schedulerTimeout # Null THEN e
  ELSE
    LET id == Alloc(e.nodes)
        nextSource == NewNode(e.nextBuffer, EndTime(e, t), 0, "next")
    IN IF id = Null THEN [e EXCEPT !.overflow = TRUE]
       ELSE [e EXCEPT !.nodes = [@ EXCEPT ![id] = nextSource,
                                          ![e.currentSource].onended = FALSE],
                      !.nextSourceNode = id,
                      !.schedulerTimeout = id,
                      !.timers = @ \cup {[id |-> id, due |-> t + TimeRemaining(e, t),
                                          node |-> id, buffer |-> e.nextBuffer,
                                          path |-> e.nextTrackPath,
                                          endTime |-> EndTime(e, t)]}]

\* stop without the rewind `pauseOffset = 0`.
stop_keepsOffset(e, t) ==
  LET e1 == IF e.currentSource # Null
              THEN [e EXCEPT !.nodes = [StopNode(@, e.currentSource)
                                          EXCEPT ![e.currentSource].onended = FALSE],
                             !.currentSource = Null]
              ELSE e
      e2 == cancelScheduledTrack(e1, t)
  IN [e2 EXCEPT !.isPlaying = FALSE, !.startTime = 0]

\* stop without clearing the current node's onended before stopping it.
stop_keepsHandler(e, t) ==
  LET e1 == IF e.currentSource # Null
              THEN [e EXCEPT !.nodes = StopNode(@, e.currentSource),
                             !.currentSource = Null]
              ELSE e
      e2 == cancelScheduledTrack(e1, t)
  IN [e2 EXCEPT !.isPlaying = FALSE, !.pauseOffset = 0, !.startTime = 0]

stop(e, t) ==
  LET e1 == IF e.currentSource # Null
              THEN [e EXCEPT !.nodes = [StopNode(@, e.currentSource)
                                          EXCEPT ![e.currentSource].onended = FALSE],
                             !.currentSource = Null]
              ELSE e
      e2 == cancelScheduledTrack(e1, t)
  IN [e2 EXCEPT !.isPlaying = FALSE, !.pauseOffset = 0, !.startTime = 0]

\* play restarting the position clock at the call instant.
play_resetsStartTime(e, t) ==
  IF e.isPlaying \/ e.currentBuffer = Null THEN e
  ELSE
    LET e0 == Collect([e EXCEPT !.currentSource = Null], t)
        id == Alloc(e0.nodes)
        src == [NewNode(e.currentBuffer, t, e.pauseOffset, "current")
                  EXCEPT !.onended = TRUE]
        e1 == [e0 EXCEPT !.nodes = [@ EXCEPT ![id] = src],
                         !.currentSource = id,
                         !.startTime = t,
                         !.isPlaying = TRUE]
    IN IF id = Null THEN [e EXCEPT !.overflow = TRUE]
       ELSE IF e1.nextBuffer # Null THEN scheduleNextTrack(e1, t) ELSE e1

\* play starting the node at offset 0 whatever pauseOffset holds.
\* A play() that starts the node without arming the swap.
play_unscheduled(e, t) ==
  IF e.isPlaying \/ e.currentBuffer = Null THEN e
  ELSE
    LET e0 == Collect([e EXCEPT !.currentSource = Null], t)
        id == Alloc(e0.nodes)
        src == [NewNode(e.currentBuffer, t, e.pauseOffset, "current")
                  EXCEPT !.onended = TRUE]
        e1 == [e0 EXCEPT !.nodes = [@ EXCEPT ![id] = src],
                         !.currentSource = id,
                         !.startTime = t - e.pauseOffset,
                         !.isPlaying = TRUE]
    IN IF id = Null THEN [e EXCEPT !.overflow = TRUE] ELSE e1

play_fromStart(e, t) ==
  IF e.isPlaying \/ e.currentBuffer = Null THEN e
  ELSE
    LET e0 == Collect([e EXCEPT !.currentSource = Null], t)
        id == Alloc(e0.nodes)
        src == [NewNode(e.currentBuffer, t, 0, "current") EXCEPT !.onended = TRUE]
        e1 == [e0 EXCEPT !.nodes = [@ EXCEPT ![id] = src],
                         !.currentSource = id,
                         !.startTime = t - e.pauseOffset,
                         !.isPlaying = TRUE]
    IN IF id = Null THEN [e EXCEPT !.overflow = TRUE]
       ELSE IF e1.nextBuffer # Null THEN scheduleNextTrack(e1, t) ELSE e1

play(e, t) ==
  IF e.isPlaying \/ e.currentBuffer = Null THEN e
  ELSE
    LET e0 == Collect([e EXCEPT !.currentSource = Null], t)
        id == Alloc(e0.nodes)
        src == [NewNode(e.currentBuffer, t, e.pauseOffset, "current")
                  EXCEPT !.onended = TRUE]
        e1 == [e0 EXCEPT !.nodes = [@ EXCEPT ![id] = src],
                         !.currentSource = id,
                         !.startTime = t - e.pauseOffset,
                         !.isPlaying = TRUE]
    IN IF id = Null THEN [e EXCEPT !.overflow = TRUE]
       ELSE IF e1.nextBuffer # Null THEN scheduleNextTrack(e1, t) ELSE e1

\* pause without recording the position in pauseOffset.
pause_keepsOffset(e, t) ==
  IF ~e.isPlaying \/ e.currentSource = Null THEN e
  ELSE
    LET e1 == [e EXCEPT !.isPlaying = FALSE,
                        !.nodes = [StopNode(@, e.currentSource)
                                     EXCEPT ![e.currentSource].onended = FALSE],
                        !.currentSource = Null]
    IN cancelScheduledTrack(e1, t)

\* pause without its cancelScheduledTrack call.
pause_keepsSwap(e, t) ==
  IF ~e.isPlaying \/ e.currentSource = Null THEN e
  ELSE
    Collect([e EXCEPT !.isPlaying = FALSE,
                      !.pauseOffset = t - e.startTime,
                      !.nodes = [StopNode(@, e.currentSource)
                                   EXCEPT ![e.currentSource].onended = FALSE],
                      !.currentSource = Null], t)

pause(e, t) ==
  IF ~e.isPlaying \/ e.currentSource = Null THEN e
  ELSE
    LET e1 == [e EXCEPT !.isPlaying = FALSE,
                        !.pauseOffset = t - e.startTime,
                        !.nodes = [StopNode(@, e.currentSource)
                                     EXCEPT ![e.currentSource].onended = FALSE],
                        !.currentSource = Null]
    IN cancelScheduledTrack(e1, t)

\* A reset that leaves the next slot bound.
reset_keepsNext(e, t) ==
  [stop(e, t) EXCEPT !.currentBuffer = Null, !.currentTrackPath = Null]

reset(e, t) ==
  [stop(e, t) EXCEPT !.nextBuffer = Null, !.nextTrackPath = Null,
                     !.currentBuffer = Null, !.currentTrackPath = Null]

\* seek storing the requested time without clamping it into [0, duration].
seek_unclamped(e, time, t) ==
  IF e.currentBuffer = Null THEN e
  ELSE
    LET wasPlaying == e.isPlaying
        e1 == IF wasPlaying THEN pause(e, t) ELSE e
        e2 == [e1 EXCEPT !.pauseOffset = time]
    IN IF wasPlaying THEN play(e2, t) ELSE e2

seek(e, time, t) ==
  IF e.currentBuffer = Null THEN e
  ELSE
    LET wasPlaying == e.isPlaying
        e1 == IF wasPlaying THEN pause(e, t) ELSE e
        e2 == [e1 EXCEPT !.pauseOffset = Max(0, Min(time, duration(e1)))]
    IN IF wasPlaying THEN play(e2, t) ELSE e2

\* playNext returns <<engine, result>>.
\* A playNext that promotes but never resumes playback.
playNext_staysStopped(e, expectedPath, t) ==
  IF e.nextBuffer # Null /\ e.nextTrackPath = expectedPath
    THEN IF e.currentTrackPath = expectedPath /\ e.isPlaying
           THEN <<e, TRUE>>
           ELSE LET e1 == stop(e, t)
                    e2 == [e1 EXCEPT !.currentBuffer = e1.nextBuffer,
                                     !.currentTrackPath = e1.nextTrackPath,
                                     !.nextBuffer = Null,
                                     !.nextTrackPath = Null]
                IN <<e2, TRUE>>
    ELSE <<e, FALSE>>

playNext(e, expectedPath, t) ==
  IF e.nextBuffer # Null /\ e.nextTrackPath = expectedPath
    THEN IF e.currentTrackPath = expectedPath /\ e.isPlaying
           THEN <<e, TRUE>>
           ELSE LET wasPlaying == e.isPlaying
                    e1 == stop(e, t)
                    e2 == [e1 EXCEPT !.currentBuffer = e1.nextBuffer,
                                     !.currentTrackPath = e1.nextTrackPath,
                                     !.nextBuffer = Null,
                                     !.nextTrackPath = Null]
                IN <<IF wasPlaying THEN play(e2, t) ELSE e2, TRUE>>
    ELSE <<e, FALSE>>

\* The onended handler without `this.pauseOffset = 0` in its else branch.
OnEnded_keepsOffset(e, t) ==
  IF e.isPlaying
    THEN IF e.nextBuffer # Null
           THEN Notify(playNext(e, e.nextTrackPath, t)[1])
           ELSE Notify([e EXCEPT !.isPlaying = FALSE])
    ELSE e

\* The onended handler installed by play() and by the swap callback.
OnEnded(e, t) ==
  IF e.isPlaying
    THEN IF e.nextBuffer # Null
           THEN Notify(playNext(e, e.nextTrackPath, t)[1])
           ELSE Notify([e EXCEPT !.isPlaying = FALSE, !.pauseOffset = 0])
    ELSE e

\* The swap callback without `this.pauseOffset = 0`.
SwapCallback_keepsOffset(e, tm, t) ==
  Collect(Notify([e EXCEPT !.currentSource = tm.node,
                   !.currentBuffer = tm.buffer,
                   !.currentTrackPath = tm.path,
                   !.nextBuffer = Null,
                   !.nextTrackPath = Null,
                   !.nextSourceNode = Null,
                   !.schedulerTimeout = Null,
                   !.startTime = tm.endTime,
                   !.nodes = [@ EXCEPT ![tm.node].onended = TRUE,
                                       ![tm.node].role = "current"],
                   !.timers = @ \ {tm}]), t)

\* The setTimeout callback created by scheduleNextTrack.
SwapCallback(e, tm, t) ==
  Collect(Notify([e EXCEPT !.currentSource = tm.node,
                   !.currentBuffer = tm.buffer,
                   !.currentTrackPath = tm.path,
                   !.nextBuffer = Null,
                   !.nextTrackPath = Null,
                   !.nextSourceNode = Null,
                   !.schedulerTimeout = Null,
                   !.startTime = tm.endTime,
                   !.pauseOffset = 0,
                   !.nodes = [@ EXCEPT ![tm.node].onended = TRUE,
                                       ![tm.node].role = "current"],
                   !.timers = @ \ {tm}]), t)

\* loadTrack up to its first await: <<engine, resolved, result>>.
LoadTrackSync(e, path, t) ==
  LET e1 == [stop(e, t) EXCEPT !.loadingTrackPath = path]
  IN IF e1.nextTrackPath = path /\ e1.nextBuffer # Null
       THEN <<[e1 EXCEPT !.currentBuffer = e1.nextBuffer,
                         !.currentTrackPath = e1.nextTrackPath,
                         !.nextBuffer = Null, !.nextTrackPath = Null,
                         !.pauseOffset = 0, !.startTime = 0], TRUE, TRUE>>
       ELSE <<[e1 EXCEPT !.nextBuffer = Null, !.nextTrackPath = Null],
              FALSE, FALSE>>

\* loadTrack committing without the `loadingTrackPath !== path` check.
LoadTrackCommit_unchecked(e, path) ==
  <<[e EXCEPT !.currentBuffer = path, !.currentTrackPath = path,
              !.pauseOffset = 0, !.startTime = 0,
              !.loadingTrackPath = Null], TRUE>>

\* loadTrack after decodeAudioData resolved: <<engine, result>>.
LoadTrackCommit(e, path) ==
  IF e.loadingTrackPath # path
    THEN <<e, FALSE>>
    ELSE <<[e EXCEPT !.currentBuffer = path, !.currentTrackPath = path,
                     !.pauseOffset = 0, !.startTime = 0,
                     !.loadingTrackPath = Null], TRUE>>

\* loadTrack's catch block.
LoadTrackCatch(e, path) ==
  IF e.loadingTrackPath = path THEN [e EXCEPT !.loadingTrackPath = Null] ELSE e

\* preloadNextTrack committing without the `nextTrackPath === path` check.
PreloadCommit_unchecked(e, path, t) ==
  LET e1 == [e EXCEPT !.nextBuffer = path]
  IN IF e1.isPlaying
       THEN scheduleNextTrack(cancelScheduledTrack(e1, t), t)
       ELSE e1

\* preloadNextTrack storing the buffer without trying to schedule it.
PreloadCommit_storesOnly(e, path, t) ==
  IF e.nextTrackPath = path THEN [e EXCEPT !.nextBuffer = path] ELSE e

\* preloadNextTrack after decodeAudioData resolved.
PreloadCommit(e, path, t) ==
  IF e.nextTrackPath = path
    THEN LET e1 == [e EXCEPT !.nextBuffer = path]
         IN IF e1.isPlaying
              THEN scheduleNextTrack(cancelScheduledTrack(e1, t), t)
              ELSE e1
    ELSE e

\* ---- initial state: a freshly constructed engine -------------------------
\* ---------------------------------------------------------------------
\* The play queue.  Tracks are told apart by their id; indices count from 0
\* as in the code, so index i is position i + 1 of the sequence.
MaxQueue == 4
NoIndex == 0 - 1
TrackIds == 1 .. MaxQueue

queueVars == <<queue, currentTrackIndex>>

QueueState == [queue |-> queue, currentTrackIndex |-> currentTrackIndex]

Indices(q) == 0 .. (Len(q) - 1)

At(q, i) == q[i + 1]

\* items.splice(i, 1) and items.splice(i, 0, item)
SpliceOut(q, i) == SubSeq(q, 1, i) \o SubSeq(q, i + 2, Len(q))

SpliceIn(q, i, item) == SubSeq(q, 1, i) \o <<item>> \o SubSeq(q, i + 1, Len(q))

\* A reorder that moves the track but leaves the index alone.
reorderQueue_keepsIndex(s, oldIndex, newIndex) ==
  [s EXCEPT !.queue = SpliceIn(SpliceOut(@, oldIndex), newIndex,
                               At(s.queue, oldIndex))]

reorderQueue(s, oldIndex, newIndex) ==
  LET c == s.currentTrackIndex
  IN [queue |-> SpliceIn(SpliceOut(s.queue, oldIndex), newIndex,
                         At(s.queue, oldIndex)),
      currentTrackIndex |->
        IF c # NoIndex
          THEN IF c = oldIndex THEN newIndex
               ELSE IF c > oldIndex /\ c <= newIndex THEN c - 1
               ELSE IF c < oldIndex /\ c >= newIndex THEN c + 1
               ELSE c
          ELSE c]

\* A remove that never shifts the index down.
removeFromQueue_keepsIndex(s, index) ==
  LET c == s.currentTrackIndex
      n == Len(s.queue)
  IN [queue |-> SpliceOut(s.queue, index),
      currentTrackIndex |->
        IF c # NoIndex /\ index = c
          THEN IF n > 1 THEN (IF index >= n - 1 THEN 0 ELSE index)
               ELSE NoIndex
          ELSE c]

removeFromQueue(s, index) ==
  LET c == s.currentTrackIndex
      n == Len(s.queue)
  IN [queue |-> SpliceOut(s.queue, index),
      currentTrackIndex |->
        IF c # NoIndex
          THEN IF index = c
                 THEN IF n > 1 THEN (IF index >= n - 1 THEN 0 ELSE index)
                      ELSE NoIndex
               ELSE IF index < c THEN c - 1
               ELSE c
          ELSE c]

clearQueue(s) == [queue |-> <<>>, currentTrackIndex |-> NoIndex]

\* One new track appended; an empty queue with no current track gets index 0.
processPaths(s, id) ==
  [queue |-> Append(s.queue, id),
   currentTrackIndex |->
     IF Len(s.queue) = 0 /\ s.currentTrackIndex = NoIndex
       THEN 0 ELSE s.currentTrackIndex]

playTrack(s, index) == [s EXCEPT !.currentTrackIndex = index]

\* ---------------------------------------------------------------------
\* Volume and mute.  Levels are counted in hundredths: VolumeUnit is 1.0.
VolumeUnit == 100
InitialVolume == 70
VolumeInputs == (0 - 20) .. (VolumeUnit + 20)

gainVars == <<volume, isMuted, gain>>

Mixer == [volume |-> volume, isMuted |-> isMuted, gain |-> gain]

\* ---------------------------------------------------------------------
\* A setVolume that writes the gain even while muted.
setVolume_unmutes(m, val) ==
  LET v == Max(0, Min(VolumeUnit, val))
  IN [m EXCEPT !.volume = v, !.gain = v]

setVolume(m, val) ==
  LET v == Max(0, Min(VolumeUnit, val))
  IN [m EXCEPT !.volume = v,
               !.gain = IF ~m.isMuted THEN v ELSE @]

setMute(m, muted) ==
  [m EXCEPT !.isMuted = muted,
            !.gain = IF muted THEN 0 ELSE m.volume]

Init ==
  /\ currentSource = Null /\ currentBuffer = Null /\ nextBuffer = Null
  /\ currentTrackPath = Null /\ nextTrackPath = Null
  /\ loadingTrackPath = Null /\ nextSourceNode = Null
  /\ schedulerTimeout = Null /\ startTime = 0 /\ pauseOffset = 0
  /\ isPlaying = FALSE /\ nodes = [i \in 1..MaxNodes |-> FreeNode] /\ timers = {} /\ orphans = {}
  /\ now = 0
  /\ loads = [p \in Paths |-> 0] /\ preloads = [p \in Paths |-> 0]
  /\ notified = 0 /\ lastOp = "init" /\ lastResult = FALSE
  /\ lastLoadCall = Null /\ lastPreloadReq = Null
  /\ volume = InitialVolume /\ isMuted = FALSE /\ gain = InitialVolume
  /\ quiet = FALSE
  /\ queue = <<>> /\ currentTrackIndex = NoIndex

RECURSIVE SumOver(_, _)
SumOver(f, S) ==
  IF S = {} THEN 0
  ELSE LET x == CHOOSE y \in S : TRUE IN f[x] + SumOver(f, S \ {x})

Pending(f) == SumOver(f, Paths)
Inflight == Pending(loads) + Pending(preloads)

\* Records the step; a call that changes nothing leaves no trace.
Did(op, res, e) ==
  /\ UNCHANGED <<gainVars, quiet, queueVars>>
  /\ IF <<engineVars, now, loads, preloads, lastLoadCall, lastPreloadReq>>'
          = <<engineVars, now, loads, preloads, lastLoadCall, lastPreloadReq>>
       THEN UNCHANGED <<lastOp, lastResult, notified>>
       ELSE lastOp' = op /\ lastResult' = res /\ notified' = e.notified

\* ---- actions ---------------------------------------------------------------
Tick ==
  /\ now < MaxTime
  /\ now' = now + 1
  /\ Becomes(Collect(Engine, now + 1))
  /\ UNCHANGED <<loads, preloads, lastLoadCall, lastPreloadReq>>
  /\ Did("tick", FALSE, Engine)

Play ==
  LET e == play(Engine, now)
  IN /\ ~e.overflow
     /\ Becomes(e)
     /\ UNCHANGED <<now, loads, preloads, lastLoadCall, lastPreloadReq>>
     /\ Did("play", FALSE, e)

Pause ==
  LET e == pause(Engine, now)
  IN /\ Becomes(e)
     /\ UNCHANGED <<now, loads, preloads, lastLoadCall, lastPreloadReq>>
     /\ Did("pause", timers # {}, e)

Stop ==
  LET e == stop(Engine, now)
  IN /\ Becomes(e)
     /\ UNCHANGED <<now, loads, preloads, lastLoadCall, lastPreloadReq>>
     /\ Did("stop", timers # {}, e)

Reset ==
  LET e == reset(Engine, now)
  IN /\ Becomes(e)
     /\ lastPreloadReq' = Null
     /\ UNCHANGED <<now, loads, preloads, lastLoadCall>>
     /\ Did("reset", timers # {}, e)

Seek ==
  \E time \in SeekTimes :
    LET e == seek(Engine, time, now)
    IN /\ ~e.overflow
       /\ Becomes(e)
       /\ UNCHANGED <<now, loads, preloads, lastLoadCall, lastPreloadReq>>
       /\ Did("seek", timers # {}, e)

PlayNext ==
  \E path \in Paths :
    LET r == playNext(Engine, path, now)
    IN /\ ~r[1].overflow
       /\ Becomes(r[1])
       /\ UNCHANGED <<now, loads, preloads, lastLoadCall, lastPreloadReq>>
       /\ Did("playNext", r[2], r[1])

\* loadTrack(path), with at most `cap` fetches in flight.
LoadTrackCall(cap) ==
  \E path \in Paths :
    LET r == LoadTrackSync(Engine, path, now)
    IN /\ r[2] \/ Inflight < cap
       /\ Becomes(r[1])
       /\ loads' = IF r[2] THEN loads ELSE [loads EXCEPT ![path] = @ + 1]
       /\ lastLoadCall' = path
       /\ lastPreloadReq' = Null
       /\ UNCHANGED <<now, preloads>>
       /\ Did("loadTrack", r[3], r[1])

LoadTrack == LoadTrackCall(MaxInflight)

LoadResolve ==
  \E path \in Paths :
    LET r == LoadTrackCommit(Engine, path)
    IN /\ loads[path] > 0
       /\ loads' = [loads EXCEPT ![path] = @ - 1]
       /\ Becomes(r[1])
       /\ UNCHANGED <<now, preloads, lastLoadCall, lastPreloadReq>>
       /\ Did("loadResolve", r[2], r[1])

LoadFail ==
  \E path \in Paths :
    LET e == LoadTrackCatch(Engine, path)
    IN /\ loads[path] > 0
       /\ loads' = [loads EXCEPT ![path] = @ - 1]
       /\ Becomes(e)
       /\ UNCHANGED <<now, preloads, lastLoadCall, lastPreloadReq>>
       /\ Did("loadFail", FALSE, e)

\* preloadNextTrack up to its first await: <<engine, fetching>>.
PreloadSync(e, path) ==
  IF e.nextTrackPath = path /\ e.nextBuffer # Null
    THEN <<e, FALSE>>
    ELSE <<[e EXCEPT !.nextTrackPath = path], TRUE>>

\* preloadNextTrack(path), with at most `cap` fetches in flight.
PreloadCall(cap) ==
  \E path \in Paths :
    LET r == PreloadSync(Engine, path)
    IN /\ ~r[2] \/ Inflight < cap
       /\ Becomes(r[1])
       /\ preloads' = IF r[2] THEN [preloads EXCEPT ![path] = @ + 1] ELSE preloads
       /\ lastPreloadReq' = IF r[2] THEN path ELSE lastPreloadReq
       /\ UNCHANGED <<now, loads, lastLoadCall>>
       /\ Did("preloadNextTrack", r[2], r[1])

PreloadNextTrack == PreloadCall(MaxInflight)

PreloadResolve ==
  \E path \in Paths :
    LET e == PreloadCommit(Engine, path, now)
    IN /\ preloads[path] > 0
       /\ ~e.overflow
       /\ preloads' = [preloads EXCEPT ![path] = @ - 1]
       /\ Becomes(e)
       /\ UNCHANGED <<now, loads, lastLoadCall, lastPreloadReq>>
       /\ Did(IF nextTrackPath = path /\ isPlaying /\ timers # {}
                 THEN "preloadRearm" ELSE "preloadResolve",
               nextTrackPath = path, e)

\* A catch block that also empties the next slot.
PreloadCatch_clearsNext(e, path) ==
  <<[e EXCEPT !.nextBuffer = Null, !.nextTrackPath = Null], FALSE>>

\* The catch block of preloadNextTrack: the engine it leaves, and whether the
\* promise rejects.
PreloadCatch(e, path) == <<e, FALSE>>

PreloadFail ==
  \E path \in Paths :
    LET r == PreloadCatch(Engine, path)
    IN /\ preloads[path] > 0
       /\ preloads' = [preloads EXCEPT ![path] = @ - 1]
       /\ Becomes(r[1])
       /\ UNCHANGED <<now, loads, lastLoadCall, lastPreloadReq>>
       /\ Did("preloadFail", r[2], r[1])

\* The pending timer's callback runs, at or after its delay.
TimerFire ==
  \E tm \in timers :
    LET e == SwapCallback(Engine, tm, now)
    IN /\ now >= tm.due
       /\ Becomes(e)
       /\ UNCHANGED <<now, loads, preloads, lastLoadCall, lastPreloadReq>>
       /\ Did("timerFire", FALSE, e)

\* A node that played to its end dispatches `ended`, at or after that instant.
NodeEnded ==
  \E i \in DOMAIN nodes :
    LET ended == [Engine EXCEPT !.nodes[i].state = "ended"]
        e == IF nodes[i].onended THEN OnEnded(ended, now) ELSE ended
    IN /\ \/ nodes[i].state = "live" /\ now >= ExhaustAt(nodes[i])
          \/ nodes[i].state = "stopped" /\ nodes[i].onended
       /\ ~e.overflow
       /\ Becomes(Collect(e, now))
       /\ UNCHANGED <<now, loads, preloads, lastLoadCall, lastPreloadReq>>
       /\ Did("nodeEnded", nodes[i].onended, e)

Next ==
  \/ Tick
  \/ Play
  \/ Pause
  \/ Stop
  \/ Reset
  \/ Seek
  \/ PlayNext
  \/ LoadTrack
  \/ LoadResolve
  \/ LoadFail
  \/ PreloadNextTrack
  \/ PreloadResolve
  \/ PreloadFail
  \/ TimerFire
  \/ NodeEnded

Spec == Init /\ [][Next]_vars

\* The volume control on its own: the transport never writes the gain, and
\* setVolume / setMute touch nothing else.
Mixed(op, res, m) ==
  /\ volume' = m.volume /\ isMuted' = m.isMuted /\ gain' = m.gain
  /\ UNCHANGED <<engineVars, now, loads, preloads, lastLoadCall,
                 lastPreloadReq, notified, quiet, queueVars>>
  /\ IF m = Mixer
       THEN UNCHANGED <<lastOp, lastResult>>
       ELSE lastOp' = op /\ lastResult' = res

SetVolume ==
  \E val \in VolumeInputs :
    Mixed("setVolume", val \notin 0..VolumeUnit, setVolume(Mixer, val))

SetMute ==
  \E muted \in BOOLEAN :
    Mixed("setMute", muted, setMute(Mixer, muted))

NextVolume ==
  \/ SetVolume
  \/ SetMute

SpecVolume == Init /\ [][NextVolume]_vars

\* The queue on its own: its handlers write the queue and the index only.
Queued(op, s) ==
  /\ queue' = s.queue /\ currentTrackIndex' = s.currentTrackIndex
  /\ UNCHANGED <<engineVars, now, loads, preloads, lastLoadCall,
                 lastPreloadReq, notified, quiet, gainVars>>
  /\ IF s = QueueState
       THEN UNCHANGED <<lastOp, lastResult>>
       ELSE /\ lastOp' = op
            /\ lastResult' = (s.currentTrackIndex # currentTrackIndex)

ProcessPaths ==
  \E id \in TrackIds :
    /\ Len(queue) < MaxQueue
    /\ \A i \in Indices(queue) : At(queue, i) # id
    /\ Queued("processPaths", processPaths(QueueState, id))

PlayTrack ==
  \E index \in Indices(queue) :
    Queued("playTrack", playTrack(QueueState, index))

ReorderQueue ==
  \E oldIndex \in Indices(queue), newIndex \in Indices(queue) :
    Queued("reorderQueue", reorderQueue(QueueState, oldIndex, newIndex))

RemoveFromQueue ==
  \E index \in Indices(queue) :
    Queued("removeFromQueue", removeFromQueue(QueueState, index))

ClearQueue == Queued("clearQueue", clearQueue(QueueState))

NextQueue ==
  \/ ProcessPaths
  \/ PlayTrack
  \/ ReorderQueue
  \/ RemoveFromQueue
  \/ ClearQueue

SpecQueue == Init /\ [][NextQueue]_vars

\* The loader on its own clock instant: requests pile up while time stands still.
LoadTrackBurst == LoadTrackCall(MaxRequests)
PreloadBurst == PreloadCall(MaxRequests)

NextLoad ==
  \/ Play
  \/ Pause
  \/ Stop
  \/ Reset
  \/ Seek
  \/ PlayNext
  \/ LoadTrackBurst
  \/ LoadResolve
  \/ LoadFail
  \/ PreloadBurst
  \/ PreloadResolve
  \/ PreloadFail
  \/ TimerFire
  \/ NodeEnded

SpecLoad == Init /\ [][NextLoad]_vars

\* ---- properties -------------------------------------------------------------
\* Nodes created by scheduleNextTrack that can still start or are sounding and
\* have not been promoted to the current slot.
ArmedNodes == {i \in DOMAIN nodes : nodes[i].role = "next" /\ nodes[i].state = "live"}
ArmedOrphans == {o \in orphans : o.role = "next"}

\* C1: at most one scheduled swap exists in every reachable state: at most one
\* pending swap timer and at most one armed next node, both the ones the engine
\* holds; scheduleNextTrack changes nothing while one exists, so a re-arm is
\* always preceded by the cancellation of the prior node and timer.
C1_AtMostOneScheduledSwap ==
  /\ Cardinality(timers) <= 1
  /\ Cardinality(ArmedNodes) + Cardinality(ArmedOrphans) <= 1
  /\ \A tm \in timers : tm.id = schedulerTimeout /\ tm.node = nextSourceNode
  /\ \A i \in ArmedNodes : i = nextSourceNode
  /\ (nextSourceNode # Null \/ schedulerTimeout # Null)
       => scheduleNextTrack(Engine, now) = Engine

\* A preload committed while a swap was armed: the swap was re-armed.
C1_Witness ==
  /\ lastOp = "preloadRearm"
  /\ Cardinality(timers) = 1
  /\ nextSourceNode # Null

\* A scheduled swap of engine e: a pending timer, a held handle, or an armed node.
Armed(e) ==
  \/ e.timers # {}
  \/ e.nextSourceNode # Null
  \/ e.schedulerTimeout # Null
  \/ \E i \in DOMAIN e.nodes : e.nodes[i].role = "next" /\ e.nodes[i].state = "live"
  \/ \E o \in e.orphans : o.role = "next"

\* C2: a scheduled swap exists only while isPlaying is true and nextBuffer is
\* non-null.  Wherever they are called, pause(), stop(), reset() and
\* loadTrack() return with no swap armed; playNext() and seek() on a paused
\* engine return with none armed either, and so does any call that changed
\* the engine and left it not playing.
C2_SwapOnlyWhilePlayingWithNext ==
  /\ Armed(Engine) => isPlaying /\ nextBuffer # Null
  /\ ~Armed(pause(Engine, now))
  /\ ~Armed(stop(Engine, now))
  /\ ~Armed(reset(Engine, now))
  /\ \A p \in Paths : ~Armed(LoadTrackSync(Engine, p, now)[1])
  /\ ~isPlaying =>
       /\ \A p \in Paths : ~Armed(playNext(Engine, p, now)[1])
       /\ \A time \in SeekTimes : ~Armed(seek(Engine, time, now))
  /\ lastOp \in {"pause", "stop", "reset", "loadTrack"} => ~Armed(Engine)

\* pause() was called while a swap was armed, and with a next buffer bound.
C2_Witness ==
  /\ lastOp = "pause"
  /\ lastResult
  /\ nextBuffer # Null
  /\ ~Armed(Engine)

\* An onended handler that can still run.
HandlerArmed(n) == n.onended /\ n.state \in {"live", "stopped"}

\* C3: while a swap is armed the outgoing node has no natural-end handler, no
\* node the engine has let go of carries one, and the step in which the swap
\* callback runs calls onTrackBoundary exactly once; the end of the outgoing
\* node therefore promotes nothing and notifies nobody.
C3_OneNotificationPerSwap ==
  /\ timers # {} =>
       /\ currentSource # Null
       /\ \A i \in DOMAIN nodes : ~HandlerArmed(nodes[i])
  /\ \A o \in orphans : ~o.onended
  /\ \A i \in DOMAIN nodes : HandlerArmed(nodes[i]) => i = currentSource
  /\ lastOp = "timerFire" => notified = 1
  /\ lastOp = "nodeEnded" => (notified = IF lastResult THEN 1 ELSE 0)
  /\ notified <= 1

\* The swap callback ran at a boundary: the promoted node sounds, the outgoing
\* node has played out, one notification was made.
C3_Witness ==
  /\ lastOp = "timerFire"
  /\ notified = 1
  /\ currentSource # Null
  /\ nodes[currentSource].state = "live"
  /\ orphans = {}
  /\ now > 0

\* Nothing of earlier playback can notify or swap: not playing, no timer
\* pending, no handler installed anywhere.
Silent(e) ==
  /\ ~e.isPlaying
  /\ ~Armed(e)
  /\ \A i \in DOMAIN e.nodes : ~HandlerArmed(e.nodes[i])
  /\ \A o \in e.orphans : ~o.onended

\* C4: cancellation is synchronous.  cancelScheduledTrack() returns with no
\* swap armed, and pause(), stop() and reset() return with the engine silent,
\* from every reachable state.  From a silent engine, whatever timer and
\* node-ended events follow in whatever order, no notification fires and the
\* engine stays silent until the application calls play().
C4_CancellationIsSynchronous ==
  /\ [](/\ ~Armed(cancelScheduledTrack(Engine, now))
        /\ Silent(pause(Engine, now)) \/ pause(Engine, now) = Engine
        /\ Silent(stop(Engine, now))
        /\ Silent(reset(Engine, now))
        /\ lastOp \in {"pause", "stop", "reset"} => Silent(Engine))
  /\ [][Silent(Engine) =>
          /\ lastOp' \in {"timerFire", "nodeEnded", "tick"} => notified' = 0
          /\ Silent(Engine)' \/ lastOp' = "play"]_vars

\* stop() was called while a swap was armed and left the engine silent.
C4_Witness ==
  /\ lastOp = "stop"
  /\ lastResult
  /\ nextBuffer # Null
  /\ Silent(Engine)

\* A node that was started, was not stopped and has not dispatched `ended`.
Live(n) == n.state = "live"

\* C5: isPlaying true implies a live node on the current slot; isPlaying false
\* implies that no node the engine created is sounding or scheduled to sound,
\* and that pauseOffset is the position from which play() resumes.
C5_PlayingIffLiveCurrentNode ==
  /\ isPlaying => currentSource # Null /\ Live(nodes[currentSource])
  /\ ~isPlaying =>
       /\ \A i \in DOMAIN nodes : ~Live(nodes[i])
       /\ orphans = {}
       /\ currentBuffer # Null =>
            LET e == play(Engine, now)
            IN e.overflow \/ /\ e.nodes[e.currentSource].offset = pauseOffset
                             /\ now - e.startTime = pauseOffset

\* C6: whenever a swap is armed, the armed node is scheduled to start at the
\* instant the live current node exhausts its buffer, which is startTime plus
\* the duration of the current buffer: no gap and no overlap.
C6_NextStartsWhenCurrentEnds ==
  timers # {} =>
    /\ currentSource # Null
    /\ nextSourceNode # Null
    /\ nodes[nextSourceNode].startAt = ExhaustAt(nodes[currentSource])
    /\ ExhaustAt(nodes[currentSource]) = startTime + duration(Engine)

\* The last step armed a swap: play() or a seek that resumed, or a preload that
\* committed while playing.
JustArmed ==
  /\ timers # {}
  /\ \/ lastOp \in {"play", "seek"}
     \/ lastOp \in {"preloadResolve", "preloadRearm"} /\ lastResult

\* C7: when scheduleNextTrack arms, timeRemaining is duration minus the
\* clock-derived position (clock minus startTime, capped at the duration), the
\* next node is started at now + timeRemaining, and the timer is due then.
C7_TargetIsNowPlusTimeRemaining ==
  JustArmed =>
    \A tm \in timers :
      LET position == Min(now - startTime, BufferDuration(currentBuffer))
          timeRemaining == BufferDuration(currentBuffer) - position
      IN /\ tm.endTime = now + timeRemaining
         /\ tm.due = now + timeRemaining
         /\ nodes[tm.node].startAt = now + timeRemaining
         /\ timeRemaining = TimeRemaining(Engine, now)

\* A preload committed during playback, after the clock advanced and with a
\* stored pauseOffset that differs from the position.
C7_Witness ==
  /\ JustArmed
  /\ lastOp = "preloadResolve"
  /\ now > 0
  /\ now - startTime # pauseOffset
  /\ \E tm \in timers : tm.endTime > now

\* C8: the swap callback, run on any pending timer, moves the armed buffer,
\* path and node to the current slot, sets startTime to the armed target and
\* pauseOffset to 0, empties the next slot, clears the armed node reference and
\* the timer, installs onended on the now-current node, leaves isPlaying true
\* and notifies exactly once; the state after a timerFire step shows the same.
C8_SwapCallbackEffects ==
  /\ \A tm \in timers :
       LET armed == nodes[tm.node]
           e == SwapCallback(Engine, tm, now)
       IN /\ e.currentBuffer = tm.buffer /\ tm.buffer = nextBuffer
          /\ e.currentTrackPath = tm.path
          /\ e.currentSource # Null
          /\ e.nodes[e.currentSource] =
               [armed EXCEPT !.onended = TRUE, !.role = "current"]
          /\ e.startTime = tm.endTime /\ tm.endTime = armed.startAt
          /\ e.pauseOffset = 0
          /\ e.nextBuffer = Null /\ e.nextTrackPath = Null
          /\ e.nextSourceNode = Null /\ e.schedulerTimeout = Null
          /\ e.timers = {}
          /\ isPlaying /\ e.isPlaying
          /\ e.notified = 1
  /\ lastOp = "timerFire" =>
       /\ isPlaying
       /\ pauseOffset = 0
       /\ nextBuffer = Null /\ nextTrackPath = Null
       /\ nextSourceNode = Null /\ schedulerTimeout = Null /\ timers = {}
       /\ currentSource # Null
       /\ nodes[currentSource].onended
       /\ nodes[currentSource].role = "current"
       /\ nodes[currentSource].buffer = currentBuffer
       /\ nodes[currentSource].startAt = startTime
       /\ notified = 1

\* The swap callback ran after a seek had left a non-zero pauseOffset, and
\* promoted a different track.
C8_Witness ==
  /\ lastOp = "timerFire"
  /\ currentSource # Null
  /\ currentTrackPath = 2
  /\ startTime = 1
  /\ Live(nodes[currentSource])

\* The step completes a fetch/decode of path p started by loadTrack.
LoadResolved(p) == loads'[p] < loads[p] /\ lastOp' = "loadResolve"

\* C9: last request wins for loadTrack.  A load of path A that resolves when
\* the most recent loadTrack call was for another path returns false and
\* changes nothing of the engine; a load that commits binds the buffer and
\* path of the most recent call, in whatever order the completions arrive.
C9_LastLoadRequestWins ==
  [][\A p \in Paths :
       LoadResolved(p) =>
         /\ lastLoadCall # p => ~lastResult' /\ UNCHANGED engineVars
         /\ lastResult' => /\ lastLoadCall = p
                           /\ currentBuffer' = p
                           /\ currentTrackPath' = p]_vars

\* loadTrack(A) resolved false while the later loadTrack(B) was still in flight.
C9_Witness ==
  /\ lastOp = "loadResolve"
  /\ ~lastResult
  /\ lastLoadCall # Null
  /\ loadingTrackPath = lastLoadCall
  /\ loads[lastLoadCall] > 0

\* The step completes a fetch/decode of path p started by preloadNextTrack.
PreloadResolved(p) ==
  preloads'[p] < preloads[p] /\ lastOp' \in {"preloadResolve", "preloadRearm"}

PreloadingOrPreloaded(p) ==
  /\ nextTrackPath = p
  /\ preloads[p] > 0 \/ nextBuffer # Null

\* C11: preloadNextTrack is idempotent per path: while a preload of p is in
\* flight for the standing request, or p is preloaded in the next slot, no
\* call starts another fetch/decode of p, and a preloadNextTrack step changes
\* no engine field.
C11_PreloadIdempotentPerPath ==
  [][\A p \in Paths :
       PreloadingOrPreloaded(p) =>
         /\ preloads'[p] <= preloads[p]
         /\ (lastOp' = "preloadNextTrack" /\ nextTrackPath' = p)
              => UNCHANGED engineVars]_vars

\* Engine e has a swap armed for buffer b: one timer and one live next node,
\* both held by the engine and both for b.
ArmedFor(e, b) ==
  /\ e.nextSourceNode # Null
  /\ e.nodes[e.nextSourceNode].buffer = b
  /\ e.nodes[e.nextSourceNode].state = "live"
  /\ e.nodes[e.nextSourceNode].role = "next"
  /\ Cardinality(e.timers) = 1
  /\ \A tm \in e.timers :
       tm.buffer = b /\ tm.node = e.nextSourceNode /\ tm.id = e.schedulerTimeout

\* C12: a preload that commits while the engine is playing with no swap
\* scheduled arms a swap for its buffer in the same step; one that commits
\* while the engine is not playing arms nothing, and play() called on a
\* stopped engine that has a current and a next buffer arms the swap.
C12_CommitArmsWhenPlaying ==
  /\ (lastOp = "preloadResolve" /\ lastResult) =>
       /\ nextBuffer # Null
       /\ isPlaying => ArmedFor(Engine, nextBuffer)
       /\ ~isPlaying => ~Armed(Engine)
  /\ (~isPlaying /\ nextBuffer # Null /\ currentBuffer # Null) =>
       LET e == play(Engine, now)
       IN ~e.overflow /\ e.isPlaying /\ ArmedFor(e, nextBuffer)

\* A preload committed during playback with nothing scheduled: a swap is armed.
C12_Witness ==
  /\ lastOp = "preloadResolve"
  /\ lastResult
  /\ isPlaying
  /\ ArmedFor(Engine, nextBuffer)
  /\ nextBuffer # currentBuffer

\* The step commits a preload of another track while a swap is armed.
RearmsForOtherTrack ==
  /\ lastOp' = "preloadRearm"
  /\ timers # {}
  /\ nextBuffer' # nextBuffer

\* C13: when a preload of a different track commits while a swap is armed, the
\* old armed node is stopped and the old timer cleared, the swap armed
\* afterwards is the only one and plays the new buffer, the old timer's
\* callback never runs (no notification, no promotion in the step), and the
\* old armed node has produced no sound: it was cancelled before its start.
C13_RearmLeavesNoTrace ==
  [][RearmsForOtherTrack =>
       /\ ArmedFor(Engine, nextBuffer)'
       /\ Cardinality(ArmedNodes') = 1
       /\ ArmedOrphans' = {}
       /\ timers \cap timers' = {}
       /\ notified' = 0
       /\ currentTrackPath' = currentTrackPath /\ currentBuffer' = currentBuffer
       /\ \A tm \in timers : now <= nodes[tm.node].startAt]_vars

\* The step is the `ended` event of the live current node of an engine that is
\* playing with no next buffer bound.
CurrentEndsWithoutNext ==
  /\ lastOp' = "nodeEnded"
  /\ isPlaying
  /\ nextBuffer = Null
  /\ currentSource # Null
  /\ nodes[currentSource].state = "live"

\* C14: when the current node ends naturally while the engine is playing and
\* no next buffer is bound, the natural-end handler runs: one notification,
\* pauseOffset and currentTime 0, isPlaying false, current buffer and path
\* still bound, and no swap involved.
C14_NaturalEndWithoutNext ==
  [][CurrentEndsWithoutNext =>
       /\ timers = {} /\ timers' = {}
       /\ lastResult'
       /\ notified' = 1
       /\ pauseOffset' = 0
       /\ currentTimeOf(Engine, now)' = 0
       /\ ~isPlaying'
       /\ currentBuffer' = currentBuffer /\ currentBuffer # Null
       /\ currentTrackPath' = currentTrackPath]_vars

\* A track that was sought into played to its end with nothing preloaded.
C14_Witness ==
  /\ lastOp = "nodeEnded"
  /\ lastResult
  /\ notified = 1
  /\ ~isPlaying
  /\ nextBuffer = Null
  /\ currentBuffer = 2
  /\ now = 1

\* The pending swap was armed for a next buffer or path that the next slot no
\* longer holds.
SwapTargetReplaced ==
  \E tm \in timers : nextBuffer # tm.buffer \/ nextTrackPath # tm.path

\* C15: a swap callback that runs after the next buffer or path it was armed
\* for has been invalidated or replaced abandons the swap: nothing is
\* promoted to the current slot, no notification is made, and the engine is
\* left not playing.
C15_StaleSwapAbandoned ==
  [][(lastOp' = "timerFire" /\ SwapTargetReplaced) =>
       /\ currentBuffer' = currentBuffer
       /\ currentTrackPath' = currentTrackPath
       /\ notified' = 0
       /\ ~isPlaying']_vars

\* loadTrack(path) whose fetch or decode fails, with nothing happening in
\* between: the engine it leaves behind.
FailedLoad(e, path, t) == LoadTrackCatch(LoadTrackSync(e, path, t)[1], path)

\* C16: a loadTrack that fails to fetch or decode leaves the engine as it was
\* before the call: same current buffer and path, same next slot, same
\* isPlaying and position.
C16_FailedLoadRestoresState ==
  \A p \in Paths :
    ~LoadTrackSync(Engine, p, now)[2] =>
      LET e == FailedLoad(Engine, p, now)
      IN /\ e.currentBuffer = currentBuffer
         /\ e.currentTrackPath = currentTrackPath
         /\ e.nextBuffer = nextBuffer
         /\ e.nextTrackPath = nextTrackPath
         /\ e.isPlaying = isPlaying
         /\ currentTimeOf(e, now) = currentTimeOf(Engine, now)

\* C17: no orphaned nodes: every node that was started or scheduled and has
\* neither been stopped nor ended is the engine's current node or its armed
\* next node, and no node that can still sound has been let go of.
C17_NoOrphanedNodes ==
  /\ \A i \in DOMAIN nodes :
       Live(nodes[i]) => i \in {currentSource, nextSourceNode}
  /\ orphans = {}

\* The live nodes engine e references.
LiveNodes(e) == {i \in DOMAIN e.nodes : Live(e.nodes[i])}

\* C18: play() changes nothing when isPlaying is true or no current buffer is
\* bound; otherwise it creates one node for the current buffer started now at
\* offset pauseOffset, sets startTime = now - pauseOffset and isPlaying, and
\* arms a swap in the same step exactly when a next buffer is bound.
C18_PlayContract ==
  LET e == play(Engine, now)
  IN IF isPlaying \/ currentBuffer = Null
       THEN e = Engine
       ELSE /\ ~e.overflow
            /\ e.isPlaying
            /\ e.startTime = now - pauseOffset
            /\ e.currentSource # Null
            /\ e.nodes[e.currentSource].buffer = currentBuffer
            /\ e.nodes[e.currentSource].startAt = now
            /\ e.nodes[e.currentSource].offset = pauseOffset
            /\ e.nodes[e.currentSource].state = "live"
            /\ e.nodes[e.currentSource].role = "current"
            /\ Armed(e) <=> nextBuffer # Null
            /\ nextBuffer # Null => ArmedFor(e, nextBuffer)
            /\ LiveNodes(e) = {e.currentSource} \cup
                  (IF nextBuffer # Null THEN {e.nextSourceNode} ELSE {})
            /\ e.currentBuffer = currentBuffer /\ e.nextBuffer = nextBuffer
            /\ e.pauseOffset = pauseOffset

\* play() resumed a paused track from a non-zero position and armed the swap.
C18_Witness ==
  /\ lastOp = "play"
  /\ isPlaying
  /\ pauseOffset > 0
  /\ startTime = now - pauseOffset
  /\ currentSource # Null
  /\ nodes[currentSource].offset = pauseOffset
  /\ ArmedFor(Engine, nextBuffer)

\* Engines e and f have the same buffers and paths bound to both slots.
SameSlots(e, f) ==
  /\ e.currentBuffer = f.currentBuffer
  /\ e.currentTrackPath = f.currentTrackPath
  /\ e.nextBuffer = f.nextBuffer
  /\ e.nextTrackPath = f.nextTrackPath

\* Engine e references no node, has nothing armed, and no node it holds or has
\* let go of carries a handler.
NoNodeLeft(e) ==
  /\ e.currentSource = Null
  /\ LiveNodes(e) = {}
  /\ ~Armed(e)
  /\ \A i \in DOMAIN e.nodes : ~HandlerArmed(e.nodes[i])
  /\ \A o \in e.orphans : ~o.onended

\* C19: pause() changes nothing when the engine is not playing; when it is
\* playing, pause() sets pauseOffset = now - startTime, stops and discards the
\* current node with its handler removed, cancels any scheduled swap, clears
\* isPlaying and leaves the buffers and paths of both slots as they were.
C19_PauseContract ==
  LET e == pause(Engine, now)
  IN IF ~isPlaying
       THEN e = Engine
       ELSE /\ ~e.isPlaying
            /\ e.pauseOffset = now - startTime
            /\ NoNodeLeft(e)
            /\ e.orphans = orphans
            /\ SameSlots(e, Engine)

\* pause() stopped a playing engine at a non-zero position.
C19_Witness ==
  /\ lastOp = "pause"
  /\ ~isPlaying
  /\ pauseOffset = now - startTime
  /\ pauseOffset > 0
  /\ NoNodeLeft(Engine)
  /\ currentBuffer # Null

\* C20: after stop(), called in any reachable state (playing, paused, armed,
\* load or preload in flight), currentTime reads 0, isPlaying is false, no
\* current node and no scheduled swap exist, and the buffers and paths of both
\* slots are as before.
C20_StopContract ==
  LET e == stop(Engine, now)
  IN /\ currentTimeOf(e, now) = 0
     /\ e.pauseOffset = 0
     /\ ~e.isPlaying
     /\ NoNodeLeft(e)
     /\ SameSlots(e, Engine)

\* stop() rewound an engine that held both buffers, after the clock advanced.
C20_Witness ==
  /\ lastOp = "stop"
  /\ ~isPlaying
  /\ currentTimeOf(Engine, now) = 0
  /\ NoNodeLeft(Engine)
  /\ currentBuffer # Null
  /\ nextBuffer # Null
  /\ now > 0

\* t clamped into [0, d].
Clamp(t, d) == Max(0, Min(t, d))

\* C21: seek(t) with a current buffer sets the position to t clamped into
\* [0, duration] and keeps isPlaying as it was.  If the engine was playing,
\* the swap armed before is cancelled by the pause() inside seek, and
\* afterwards a swap is armed exactly when a next buffer is bound, targeting
\* now + (duration - clamp(t)).  If it was paused, no node is created and
\* nothing is armed.  With no current buffer seek changes nothing.
C21_SeekContract ==
  \A time \in SeekTimes :
    LET e == seek(Engine, time, now)
        c == Clamp(time, duration(Engine))
    IN IF currentBuffer = Null
         THEN e = Engine
         ELSE /\ ~e.overflow
              /\ e.pauseOffset = c
              /\ currentTimeOf(e, now) = c
              /\ e.isPlaying = isPlaying
              /\ SameSlots(e, Engine)
              /\ isPlaying =>
                   /\ ~Armed(pause(Engine, now))
                   /\ e.currentSource # Null
                   /\ e.nodes[e.currentSource].offset = c
                   /\ e.nodes[e.currentSource].startAt = now
                   /\ Live(e.nodes[e.currentSource])
                   /\ Armed(e) <=> nextBuffer # Null
                   /\ nextBuffer # Null =>
                        /\ ArmedFor(e, nextBuffer)
                        /\ \A tm \in e.timers :
                             /\ tm.endTime = now + (duration(Engine) - c)
                             /\ e.nodes[tm.node].startAt = tm.endTime
              /\ ~isPlaying =>
                   /\ e.nodes = nodes
                   /\ e.currentSource = currentSource
                   /\ ~Armed(e)

\* A playing engine with a swap armed was sought into the middle of the long
\* track: the swap is armed anew for the remaining unit.
C21_Witness ==
  /\ lastOp = "seek"
  /\ lastResult
  /\ isPlaying
  /\ currentBuffer = 2
  /\ pauseOffset = 1
  /\ ArmedFor(Engine, nextBuffer)
  /\ \A tm \in timers : tm.endTime = now + 1

\* C22: seek(t) with t equal to the current position leaves the engine as it
\* is: the same current node keeps playing (none is stopped, none created),
\* an armed swap stays as it is, and position and slots are unchanged.
C22_SeekToCurrentPositionIsNoOp ==
  \A time \in SeekTimes :
    (currentBuffer # Null /\ time = currentTimeOf(Engine, now)) =>
      LET e == seek(Engine, time, now)
      IN /\ e.nodes = nodes
         /\ e.currentSource = currentSource
         /\ e.nextSourceNode = nextSourceNode
         /\ e.timers = timers
         /\ e.startTime = startTime
         /\ e.isPlaying = isPlaying
         /\ currentTimeOf(e, now) = currentTimeOf(Engine, now)
         /\ SameSlots(e, Engine)

\* C23: on a playing engine, pause() immediately followed by play() at the
\* same clock instant resumes at the pause point: currentTime and startTime
\* are as before the pair.  Nothing is armed after the pause(); a swap present
\* after the play() is the one play() armed, for the next buffer and with the
\* target computed from the resumed position.
C23_PauseThenPlayResumes ==
  isPlaying =>
    LET p == pause(Engine, now)
        e == play(p, now)
    IN /\ ~e.overflow
       /\ ~p.isPlaying /\ e.isPlaying
       /\ e.startTime = startTime
       /\ currentTimeOf(e, now) = currentTimeOf(Engine, now)
       /\ SameSlots(e, Engine)
       /\ ~Armed(p)
       /\ Armed(e) <=> nextBuffer # Null
       /\ Armed(e) =>
            /\ ArmedFor(e, nextBuffer)
            /\ \A tm \in e.timers :
                 tm.endTime = now + (duration(e) - currentTimeOf(e, now))

\* play() resumed the long track at clock 1 from the position it was paused
\* at, and armed the swap for the remaining unit.
C23_Witness ==
  /\ lastOp = "play"
  /\ isPlaying
  /\ now = 1
  /\ startTime = 0
  /\ pauseOffset = 1
  /\ currentBuffer = 2
  /\ \E tm \in timers : tm.endTime = 2

\* Engine e is the result of promoting the next buffer of the present state.
PromotedNext(e) ==
  /\ nextBuffer # Null
  /\ e.currentBuffer = nextBuffer
  /\ e.currentTrackPath = nextTrackPath
  /\ e.nextBuffer = Null
  /\ e.nextTrackPath = Null

\* C24: playNext(expectedPath) returns true exactly when that call promoted
\* the next buffer to the current slot; with no next buffer, or with a
\* nextTrackPath other than expectedPath, it returns false and changes nothing.
C24_PlayNextTrueIffPromoted ==
  \A p \in Paths :
    LET r == playNext(Engine, p, now)
    IN /\ r[2] <=> PromotedNext(r[1])
       /\ (nextBuffer = Null \/ nextTrackPath # p) => (~r[2] /\ r[1] = Engine)

\* C25: loadTrack(path) first stops playback and cancels any scheduled swap.
\* If the next slot holds a buffer preloaded for exactly that path, the call
\* promotes it without fetching, empties the next slot and resolves true;
\* otherwise it empties the next slot and fetches.  A load that commits binds
\* its buffer and path to the current slot with position 0 and isPlaying false.
C25_LoadTrackContract ==
  /\ [](\A p \in Paths :
         LET r == LoadTrackSync(Engine, p, now)
             e == r[1]
         IN /\ ~e.isPlaying /\ NoNodeLeft(e)
            /\ e.nextBuffer = Null /\ e.nextTrackPath = Null
            /\ IF nextTrackPath = p /\ nextBuffer = p
                 THEN /\ r[2] /\ r[3]
                      /\ e.currentBuffer = p /\ e.currentTrackPath = p
                      /\ currentTimeOf(e, now) = 0
                 ELSE /\ ~r[2]
                      /\ e.currentBuffer = currentBuffer
                      /\ e.currentTrackPath = currentTrackPath)
  /\ [][\A p \in Paths :
          (LoadResolved(p) /\ lastResult') =>
            /\ currentBuffer' = p /\ currentTrackPath' = p
            /\ pauseOffset' = 0
            /\ currentTimeOf(Engine, now)' = 0
            /\ ~isPlaying']_vars

\* C26: in every reachable state the stored volume lies in [0,1] and the
\* shared gain is 0 when muted and the stored volume otherwise.  setVolume
\* clamps an out-of-range input to the nearer limit and stores an in-range
\* one as given; muting and then un-muting restores the gain held before the
\* mute; a setVolume made while muted leaves the engine muted and silent, and
\* its level becomes the gain on un-mute.
C26_VolumeMuteContract ==
  /\ volume \in 0..VolumeUnit
  /\ gain = (IF isMuted THEN 0 ELSE volume)
  /\ \A val \in VolumeInputs :
       LET s == setVolume(Mixer, val)
       IN /\ s.volume \in 0..VolumeUnit
          /\ (val \in 0..VolumeUnit => s.volume = val)
          /\ (val < 0 => s.volume = 0)
          /\ (val > VolumeUnit => s.volume = VolumeUnit)
          /\ s.isMuted = isMuted
          /\ (isMuted => /\ s.gain = 0
                         /\ setMute(s, FALSE).gain = s.volume
                         /\ ~setMute(s, FALSE).isMuted)
  /\ (~isMuted =>
        LET m == setMute(Mixer, TRUE)
        IN /\ m.isMuted /\ m.gain = 0
           /\ setMute(m, FALSE).gain = gain
           /\ setMute(m, FALSE) = Mixer)

\* An out-of-range level was set while muted: the gain stayed 0 and the
\* stored volume is the clamped limit, which differs from the initial level.
C26_Witness ==
  /\ lastOp = "setVolume" /\ lastResult
  /\ isMuted /\ gain = 0 /\ volume = VolumeUnit

\* C27: after reset() returns, from any state, both slots are empty (current
\* and next buffer and path are null), isPlaying is false, there is no current
\* node and no scheduled swap, and duration and currentTime both read 0.
C27_ResetContract ==
  LET e == reset(Engine, now)
  IN /\ e.currentBuffer = Null /\ e.currentTrackPath = Null
     /\ e.nextBuffer = Null /\ e.nextTrackPath = Null
     /\ ~e.isPlaying
     /\ e.currentSource = Null
     /\ e.schedulerTimeout = Null /\ e.nextSourceNode = Null
     /\ e.timers = {}
     /\ NoNodeLeft(e)
     /\ duration(e) = 0
     /\ currentTimeOf(e, now) = 0

\* reset() was called while a swap was scheduled, some time into playback.
C27_Witness ==
  /\ lastOp = "reset" /\ lastResult
  /\ now > 0
  /\ currentBuffer = Null /\ nextBuffer = Null
  /\ ~isPlaying /\ NoNodeLeft(Engine)
  /\ duration(Engine) = 0 /\ currentTimeOf(Engine, now) = 0

\* C28: whenever the next slot has a bound buffer, that buffer was decoded
\* from the path stored as nextTrackPath, so loadTrack(path) taking its
\* preloaded fast path and playNext(path) promoting the next slot bind a
\* buffer decoded from path to the current slot.
C28_NextSlotConsistent ==
  /\ nextBuffer # Null => nextBuffer = nextTrackPath
  /\ \A p \in Paths :
       /\ LET r == LoadTrackSync(Engine, p, now)
          IN r[2] => r[1].currentBuffer = p
       /\ LET r == playNext(Engine, p, now)
          IN (r[2] /\ r[1] # Engine) => r[1].currentBuffer = p

\* C29: whenever isPlaying is true, the buffer the live current node plays is
\* the buffer bound to the current slot and activeTrackPath is the path that
\* buffer was decoded from; and a loadTrack completing while the engine is
\* playing leaves the current slot, startTime and pauseOffset as they were.
C29_PlayingNodeMatchesCurrentSlot ==
  /\ []((isPlaying /\ currentSource # Null /\ Live(nodes[currentSource])) =>
          /\ nodes[currentSource].buffer = currentBuffer
          /\ currentTrackPath = currentBuffer)
  /\ [][\A p \in Paths :
          (isPlaying /\ LoadResolved(p)) =>
            UNCHANGED <<currentBuffer, currentTrackPath, startTime,
                        pauseOffset>>]_vars

\* C30: a loadTrack in flight when reset() is called never commits.  When
\* reset() was the last call to change anything, every load still in flight
\* was issued before it, so such a load resolving leaves the current slot
\* empty (currentBuffer and activeTrackPath null).
C30_ResetDiscardsInflightLoad ==
  [][(lastOp = "reset" /\ \E p \in Paths : LoadResolved(p)) =>
       /\ currentBuffer' = Null
       /\ currentTrackPath' = Null]_vars

\* C31: a scheduled swap only promotes the most recently requested next
\* track.  When the swap timer runs while nextTrackPath names a track other
\* than the one the swap was armed for (preloadNextTrack was called for it
\* after the arming, its fetch in flight or failed), the callback does not
\* bind the armed track's buffer and path to the current slot.
C31_SwapPromotesLatestRequest ==
  [][\A tm \in timers :
       (lastOp' = "timerFire" /\ nextTrackPath # Null
          /\ nextTrackPath # tm.path) =>
         ~(currentTrackPath' = tm.path /\ currentBuffer' = tm.buffer
             /\ startTime' = tm.endTime)]_vars

\* C32: in every reachable state 0 <= currentTime <= duration, while playing
\* (clock minus startTime, clamped) and while paused (pauseOffset), also
\* after a pause() made once the clock has passed the end of the current
\* buffer.
C32_PositionWithinTrack ==
  /\ 0 <= currentTimeOf(Engine, now)
  /\ currentTimeOf(Engine, now) <= duration(Engine)

\* C33: in every reachable state with isPlaying true and a next buffer bound,
\* a swap is armed (an armed next node and a pending timer both exist) and
\* the current node's natural-end handler is disabled; and no node that can
\* still deliver its ended event carries a handler while a next buffer is
\* bound, so the natural-end handler never runs with a next buffer bound.
C33_ArmedWheneverPlayingWithNext ==
  /\ (isPlaying /\ nextBuffer # Null) =>
        /\ nextSourceNode # Null
        /\ nodes[nextSourceNode].role = "next"
        /\ schedulerTimeout # Null
        /\ \E tm \in timers : tm.id = schedulerTimeout
        /\ currentSource # Null
        /\ ~nodes[currentSource].onended
  /\ nextBuffer # Null =>
        /\ \A i \in DOMAIN nodes : ~HandlerArmed(nodes[i])
        /\ \A o \in orphans : ~o.onended

\* The engine is playing some time into a track with a preloaded next track:
\* the swap is armed and the current node has no handler.
C33_Witness ==
  /\ isPlaying /\ nextBuffer # Null /\ now > 0
  /\ ArmedFor(Engine, nextBuffer)
  /\ currentSource # Null /\ Live(nodes[currentSource])
  /\ ~nodes[currentSource].onended

\* ---------------------------------------------------------------------
\* The engine left to itself: the clock runs, pending timers and ended events
\* are delivered, fetches settle, and from some point on the caller makes no
\* further call.
CallPlay == ~quiet /\ Play
CallPause == ~quiet /\ Pause
CallStop == ~quiet /\ Stop
CallReset == ~quiet /\ Reset
CallSeek == ~quiet /\ Seek
CallPlayNext == ~quiet /\ PlayNext
CallLoadTrack == ~quiet /\ LoadTrack
CallPreloadNextTrack == ~quiet /\ PreloadNextTrack

Retire ==
  /\ ~quiet
  /\ quiet' = TRUE
  /\ UNCHANGED <<engineVars, now, loads, preloads, notified, lastOp,
                 lastResult, lastLoadCall, lastPreloadReq, gainVars,
                 queueVars>>

NextLive ==
  \/ CallPlay
  \/ CallPause
  \/ CallStop
  \/ CallReset
  \/ CallSeek
  \/ CallPlayNext
  \/ CallLoadTrack
  \/ CallPreloadNextTrack
  \/ Retire
  \/ Tick
  \/ LoadResolve
  \/ LoadFail
  \/ PreloadResolve
  \/ PreloadFail
  \/ TimerFire
  \/ NodeEnded

\* When Tick, TimerFire and NodeEnded can take a step: ENABLED <<A>>_vars of
\* each, written out from its guard (each of them changes the state whenever
\* its guard holds).
TickEnabled == now < MaxTime

TimerFireEnabled == \E tm \in timers : now >= tm.due

NodeEndedEnabled ==
  \E i \in DOMAIN nodes :
    LET ended == [Engine EXCEPT !.nodes[i].state = "ended"]
        e == IF nodes[i].onended THEN OnEnded(ended, now) ELSE ended
    IN /\ \/ nodes[i].state = "live" /\ now >= ExhaustAt(nodes[i])
          \/ nodes[i].state = "stopped" /\ nodes[i].onended
       /\ ~e.overflow

\* Weak fairness of the clock, of the timer callback and of the ended event
\* (WF_vars(A) is []<>~ENABLED <<A>>_vars \/ []<><<A>>_vars), and of the
\* caller's last call.
SpecLive ==
  /\ Init /\ [][NextLive]_vars
  /\ WF_vars(Retire)
  /\ ([]<>(~TickEnabled) \/ []<><<Tick>>_vars)
  /\ ([]<>(~TimerFireEnabled) \/ []<><<TimerFire>>_vars)
  /\ ([]<>(~NodeEndedEnabled) \/ []<><<NodeEnded>>_vars)

\* The current node has played its buffer to the end.
CurrentExhausted ==
  /\ isPlaying /\ currentSource # Null
  /\ Live(nodes[currentSource])
  /\ now >= ExhaustAt(nodes[currentSource])

\* A swap is pending for an instant the bounded clock does not reach.
SwapBeyondHorizon == \E tm \in timers : tm.due > MaxTime

\* The engine says it is playing but no node is live.
PlayingWithoutLiveNode == isPlaying /\ LiveNodes(Engine) = {}

\* C34: with timers and ended events eventually delivered and the caller
\* eventually quiet, the engine never stays forever playing without a live
\* node, and once the caller is quiet every exhaustion of the sounding track
\* while playing is followed by a notification (unless the swap is due past
\* the last instant of the clock).
C34_BoundaryEventuallyNotified ==
  /\ []<>(~PlayingWithoutLiveNode)
  /\ (quiet /\ CurrentExhausted) ~> (notified > 0 \/ SwapBeyondHorizon)

\* C35: a promoting playNext keeps the transport status and rewinds.  If the
\* engine was playing it plays the promoted buffer from position 0 afterwards
\* (startTime = now); if it was paused or stopped it stays not playing with
\* currentTime 0.  Either way the next slot is empty, the previous current
\* node is stopped, and no swap armed before the call remains.
C35_PromotionKeepsTransport ==
  \A p \in Paths :
    LET r == playNext(Engine, p, now)
        e == r[1]
    IN (nextBuffer # Null /\ nextTrackPath = p
          /\ ~(currentTrackPath = p /\ isPlaying) /\ ~e.overflow) =>
         /\ r[2]
         /\ e.isPlaying = isPlaying
         /\ e.currentBuffer = nextBuffer /\ e.currentTrackPath = p
         /\ e.nextBuffer = Null /\ e.nextTrackPath = Null
         /\ currentTimeOf(e, now) = 0
         /\ e.timers = {} /\ e.schedulerTimeout = Null
         /\ e.nextSourceNode = Null
         /\ IF isPlaying
              THEN /\ e.startTime = now
                   /\ e.currentSource # Null
                   /\ LiveNodes(e) = {e.currentSource}
                   /\ e.nodes[e.currentSource].buffer = nextBuffer
                   /\ e.nodes[e.currentSource].startAt = now
                   /\ e.nodes[e.currentSource].offset = 0
              ELSE /\ e.currentSource = Null
                   /\ LiveNodes(e) = {}

\* playNext promoted the next track during playback, some time into the
\* previous one: the promoted buffer now plays from position 0.
C35_Witness ==
  /\ lastOp = "playNext" /\ lastResult
  /\ isPlaying /\ now > 0 /\ startTime = now
  /\ nextBuffer = Null /\ timers = {}
  /\ currentSource # Null /\ Live(nodes[currentSource])
  /\ nodes[currentSource].startAt = now
  /\ nodes[currentSource].buffer = currentBuffer

\* C36: preloadNextTrack never rejects.  When its fetch or decode fails the
\* error is swallowed, the next slot's bound buffer is left as it was, an
\* armed swap is neither cancelled nor re-armed, and isPlaying, startTime,
\* pauseOffset and the current slot are unchanged.
C36_FailedPreloadChangesNothing ==
  /\ [](\A p \in Paths :
         LET r == PreloadCatch(Engine, p)
             e == r[1]
         IN /\ ~r[2]
            /\ e.nextBuffer = nextBuffer
            /\ e.timers = timers /\ e.nodes = nodes
            /\ e.nextSourceNode = nextSourceNode
            /\ e.schedulerTimeout = schedulerTimeout
            /\ e.isPlaying = isPlaying
            /\ e.startTime = startTime /\ e.pauseOffset = pauseOffset
            /\ e.currentBuffer = currentBuffer
            /\ e.currentTrackPath = currentTrackPath
            /\ e.currentSource = currentSource)
  /\ [][\A p \in Paths :
          (preloads'[p] < preloads[p] /\ lastOp' = "preloadFail") =>
            /\ ~lastResult'
            /\ notified' = 0
            /\ UNCHANGED <<nextBuffer, timers, nodes, nextSourceNode,
                           schedulerTimeout, isPlaying, startTime,
                           pauseOffset, currentBuffer, currentTrackPath,
                           currentSource>>]_vars

\* A preload failed while the engine was playing with a swap armed for the
\* buffer already bound to the next slot.
C36_Witness ==
  /\ lastOp = "preloadFail"
  /\ isPlaying /\ nextBuffer # Null
  /\ ArmedFor(Engine, nextBuffer)
  /\ nextTrackPath # nextBuffer

\* The queue without the track x.
Without(q, x) == SelectSeq(q, LAMBDA t : t # x)

====
